---- MODULE Spec2Model ----
(***************************************************************************)
(* A model of the PyRat programs TSP_1, TSP_3 and tsp_1_bis: the reduction *)
(* of a maze to a complete graph of the locations of interest              *)
(* (graph_to_metagraph), the exhaustive search of the shortest open route  *)
(* through all of them (tsp and its recursive _tsp), the expansion of that *)
(* route into a route of the maze (expand_route), and the game loop that   *)
(* plays the resulting actions one per turn (preprocessing, turn); and of  *)
(* the program template_2players, whose turn explores the maze.            *)
(*                                                                         *)
(* Python lists are sequences (position k of a list is position k+1 of     *)
(* the sequence); the values they hold (vertex indices, cells) keep the    *)
(* program's 0-based numbering.  A numpy matrix is a function over         *)
(* 0..n-1; a Python dict whose iteration order the program uses is an      *)
(* insertion-ordered sequence of <<key, value>> pairs; a dict that is only *)
(* looked up is a function whose DOMAIN is its key set.                    *)
(*                                                                         *)
(* TLC's integers are 32 bits wide and 10e9 is not.  Every length of the   *)
(* model is therefore counted in units of 100: the programs only add and   *)
(* compare lengths, which a common unit does not change.                   *)
(***************************************************************************)
EXTENDS Integers, Sequences, FiniteSets, TLC

(***************************************************************************)
(* Bounds of the model.                                                    *)
(***************************************************************************)
\* vertices of a complete graph handed to tsp directly
MaxNodes == 3
\* ordinary weights of such a complete graph are 0..MaxWeight
MaxWeight == 2
\* cells of a maze
MaxCells == 4
\* width of a maze, in cells
MaxWidth == 2
\* weight of a maze edge is 1..MaxMud
MaxMud == 2
\* pieces of cheese in a game
MaxCheese == 2

(***************************************************************************)
(* Values of the programs.                                                 *)
(***************************************************************************)
\* Python's None: never a vertex, a cell or a length
None == -1
\* float("inf"): lengths are never negative, so -2 is free to stand for it
Inf == -2
\* 10e9, the initial best length of tsp_1_bis, in units of 100
TenE9 == 100000000
\* the route held while no route has been found: None in TSP_1 and TSP_3
NoRoute == <<None>>

Programs == {"TSP_1", "TSP_3", "tsp_1_bis"}
\* numpy.argsort's default sort promises no order among equal weights
ArgsortTies == {"stable", "reversed"}

(***************************************************************************)
(* Python's comparisons and containers.                                    *)
(***************************************************************************)
\* a >= b, where either side may be float("inf")
Geq(a, b) == IF b = Inf THEN a = Inf ELSE (a = Inf \/ a >= b)

\* x in list
In(x, list) == \E k \in 1..Len(list) : list[k] = x

\* k in d, d[k] and list(d), for an insertion-ordered dict
DictHas(d, k) == \E p \in 1..Len(d) : d[p][1] = k
DictGet(d, k) == d[CHOOSE p \in 1..Len(d) : d[p][1] = k][2]
DictKeys(d) == [p \in 1..Len(d) |-> d[p][1]]

\* d[k] = v
DictSet(d, k, v) ==
    IF DictHas(d, k)
    THEN [p \in 1..Len(d) |-> IF d[p][1] = k THEN <<k, v>> ELSE d[p]]
    ELSE Append(d, <<k, v>>)

RECURSIVE Ascending(_)
\* the elements of a finite set of integers in increasing order
Ascending(S) ==
    IF S = {} THEN <<>>
    ELSE LET m == CHOOSE x \in S : \A y \in S : x <= y
         IN  <<m>> \o Ascending(S \ {m})

VARIABLES
    prog,               \* the program that runs
    maze,               \* the maze: cell -> (neighbouring cell -> weight)
    maze_width,         \* its width
    player_location,    \* player_locations[name]
    cheese,             \* the list of cheese cells
    gm_i,               \* graph_to_metagraph: the vertices already traversed from
    gm_graph,           \* graph_to_metagraph: its local complete_graph
    gm_tables,          \* graph_to_metagraph: its local routing_tables
    oracle_log,         \* what dijkstra returned, call by call
    complete_graph,     \* preprocessing: the complete graph it got back
    routing_tables,     \* preprocessing: the routing tables it got back
    source,             \* tsp: its argument source
    sorted_neighbors,   \* tsp of TSP_3: the neighbours by increasing weight
    stack,              \* tsp: the frames of the nested _tsp calls
    ret,                \* tsp: the value the last _tsp call returned
    memory,             \* tsp of tsp_1_bis: best_route and best_length of its memory
    best_route,         \* the route tsp returned
    best_length,        \* the length tsp returned
    results,            \* the calls of tsp so far: what each was given and returned
    er_route,           \* expand_route: its argument route_in_complete_graph
    er_i,               \* expand_route: the pairs already expanded
    er_out,             \* expand_route: its local route
    maze_route,         \* preprocessing: the route in the maze
    actions_to_perform, \* memory.actions_to_perform (memory.actions in tsp_1_bis)
    stored_actions,     \* the queue as preprocessing stored it
    turns,              \* the calls of turn that returned
    action,             \* what the last call of turn returned
    visited_cells,      \* template_2players: memory.visited_cells
    trajectory,         \* template_2players: memory.trajectory
    error,              \* the exception that ended the program, if any
    pc                  \* where the program is

vars == <<prog, maze, maze_width, player_location, cheese, gm_i, gm_graph,
          gm_tables, oracle_log, complete_graph, routing_tables, source,
          sorted_neighbors, stack, ret, memory, best_route, best_length, results,
          er_route, er_i, er_out, maze_route, actions_to_perform,
          stored_actions, turns, action, visited_cells, trajectory, error, pc>>

gameVars == <<maze, maze_width, player_location, cheese>>
gmVars == <<gm_i, gm_graph, gm_tables, oracle_log>>
tspVars == <<sorted_neighbors, stack, ret, memory>>
erVars == <<er_route, er_i, er_out>>
turnVars == <<actions_to_perform, stored_actions, turns, action>>
exploreVars == <<visited_cells, trajectory>>

(***************************************************************************)
(* The complete graph.                                                     *)
(***************************************************************************)
\* complete_graph.shape[0] of the matrix, len(graph) of the dict
NbVertices(graph) ==
    IF prog = "tsp_1_bis" THEN Len(graph) ELSE Cardinality(DOMAIN graph)

\* complete_graph[u, v] of the matrix, graph[u][v] of the dict
Weight(graph, u, v) ==
    IF prog = "tsp_1_bis" THEN DictGet(DictGet(graph, u), v) ELSE graph[u][v]

\* the vertices of the complete graph, in the order of its rows
Vertices(graph) ==
    IF prog = "tsp_1_bis" THEN DictKeys(graph) ELSE Ascending(DOMAIN graph)

\* tutorial.get_neighbors on the matrix: every other vertex, by index
get_neighbors(vertex, graph) == Ascending(DOMAIN graph \ {vertex})

RECURSIVE argsort(_, _, _)
\* numpy.argsort: the positions left of a list by increasing value
argsort(values, left, ties) ==
    IF left = {} THEN <<>>
    ELSE LET p == CHOOSE p \in left : \A q \in left :
                      \/ values[p] < values[q]
                      \/ /\ values[p] = values[q]
                         /\ IF ties = "stable" THEN p <= q ELSE p >= q
         IN  <<p>> \o argsort(values, left \ {p}, ties)

\* SortedNeighborsOf without the sort: the neighbours as get_neighbors lists them
SortedNeighborsOf_ByIndex(vertex, graph, ties) == get_neighbors(vertex, graph)

\* sorted_neighbors[vertex] of TSP_3
SortedNeighborsOf(vertex, graph, ties) ==
    LET neighbors == get_neighbors(vertex, graph)
        neighbors_weights == [k \in 1..Len(neighbors) |-> graph[vertex][neighbors[k]]]
        order == argsort(neighbors_weights, 1..Len(neighbors), ties)
    IN  [k \in 1..Len(order) |-> neighbors[order[k]]]

(***************************************************************************)
(* tsp and _tsp.                                                           *)
(***************************************************************************)
\* the frame of a call _tsp(...) of TSP_1 and TSP_3; i is the place in its loop
Frame(vertex, visited, route, length, b_route, b_length) ==
    [current_vertex |-> vertex, current_visited_vertices |-> visited,
     current_route |-> route, current_length |-> length,
     current_best_route |-> b_route, current_best_length |-> b_length, i |-> 1]

\* the frame of a call _tsp(graph, vertex, length, route) of tsp_1_bis
BisFrame(vertex, length, route) ==
    [vertex |-> vertex, length |-> length, route |-> route, i |-> 1]

Top == stack[Len(stack)]

\* the list the loop of the top frame runs over
LoopList ==
    CASE prog = "TSP_1" -> get_neighbors(Top.current_vertex, complete_graph)
      [] prog = "TSP_3" -> sorted_neighbors[Top.current_vertex]
      [] OTHER -> DictKeys(DictGet(complete_graph, Top.vertex))

\* the record of a call of tsp that has not returned yet
Called(order) ==
    [prog |-> prog, complete_graph |-> complete_graph, source |-> source,
     memory |-> memory, sorted_neighbors |-> order, returned |-> <<>>]

\* tsp_call with the two initialisations of the memory of tsp_1_bis left out:
\* the incumbent starts from what the memory already holds, if it holds any
tsp_call_NoReset ==
    /\ pc = "tsp"
    /\ \E ties \in ArgsortTies :
          sorted_neighbors' =
              IF prog = "TSP_3"
              THEN [vertex \in DOMAIN complete_graph |->
                        SortedNeighborsOf(vertex, complete_graph, ties)]
              ELSE sorted_neighbors
    /\ memory' = IF prog = "tsp_1_bis" /\ DOMAIN memory = {}
                 THEN [best_route |-> <<>>, best_length |-> TenE9]
                 ELSE memory
    /\ stack' = IF prog = "tsp_1_bis"
                THEN <<BisFrame(source, 0, <<source>>)>>
                ELSE <<Frame(source, <<source>>, <<source>>, 0, NoRoute, Inf)>>
    /\ results' = Append(results, Called(sorted_neighbors'))
    /\ pc' = "tsp_enter"
    /\ UNCHANGED <<prog, gameVars, exploreVars, gmVars, complete_graph, routing_tables, source,
                   ret, best_route, best_length, erVars, maze_route, turnVars, error>>

\* tsp, up to its first call of _tsp
tsp_call ==
    /\ pc = "tsp"
    /\ \E ties \in ArgsortTies :
          sorted_neighbors' =
              IF prog = "TSP_3"
              THEN [vertex \in DOMAIN complete_graph |->
                        SortedNeighborsOf(vertex, complete_graph, ties)]
              ELSE sorted_neighbors
    /\ memory' = IF prog = "tsp_1_bis"
                 THEN [best_route |-> <<>>, best_length |-> TenE9]
                 ELSE memory
    /\ stack' = IF prog = "tsp_1_bis"
                THEN <<BisFrame(source, 0, <<source>>)>>
                ELSE <<Frame(source, <<source>>, <<source>>, 0, NoRoute, Inf)>>
    /\ results' = Append(results, Called(sorted_neighbors'))
    /\ pc' = "tsp_enter"
    /\ UNCHANGED <<prog, gameVars, exploreVars, gmVars, complete_graph, routing_tables, source,
                   ret, best_route, best_length, erVars, maze_route, turnVars, error>>

\* EarlyReturn with the complete-route test left to the calls _tsp makes itself
EarlyReturn_FromSecond(f) ==
    LET best == <<f.current_best_route, f.current_best_length>>
    IN  IF prog = "TSP_3" /\ Geq(f.current_length, f.current_best_length)
        THEN best
        ELSE IF /\ Len(f.current_visited_vertices) = NbVertices(complete_graph)
                /\ Len(f.current_visited_vertices) > 1
        THEN IF Geq(f.current_length, f.current_best_length)
             THEN best
             ELSE <<f.current_route, f.current_length>>
        ELSE <<>>

\* EarlyReturn with a complete route kept unless it is strictly longer
EarlyReturn_NonStrict(f) ==
    LET best == <<f.current_best_route, f.current_best_length>>
    IN  IF prog = "TSP_3" /\ Geq(f.current_length, f.current_best_length)
        THEN best
        ELSE IF Len(f.current_visited_vertices) = NbVertices(complete_graph)
        THEN IF f.current_length = f.current_best_length
                \/ ~Geq(f.current_length, f.current_best_length)
             THEN <<f.current_route, f.current_length>>
             ELSE best
        ELSE <<>>

\* EarlyReturn with a complete route returned whatever its length
EarlyReturn_AlwaysReplace(f) ==
    LET best == <<f.current_best_route, f.current_best_length>>
    IN  IF prog = "TSP_3" /\ Geq(f.current_length, f.current_best_length)
        THEN best
        ELSE IF Len(f.current_visited_vertices) = NbVertices(complete_graph)
        THEN <<f.current_route, f.current_length>>
        ELSE <<>>

\* EarlyReturn with TSP_3 giving up every branch once it holds a route at all
EarlyReturn_Greedy(f) ==
    LET best == <<f.current_best_route, f.current_best_length>>
    IN  IF prog = "TSP_3" /\ f.current_best_route # NoRoute
        THEN best
        ELSE IF Len(f.current_visited_vertices) = NbVertices(complete_graph)
        THEN IF Geq(f.current_length, f.current_best_length)
             THEN best
             ELSE <<f.current_route, f.current_length>>
        ELSE <<>>

\* EarlyReturn without the backtracking test of TSP_3
EarlyReturn_NoPruning(f) ==
    LET best == <<f.current_best_route, f.current_best_length>>
    IN  IF Len(f.current_visited_vertices) = NbVertices(complete_graph)
        THEN IF Geq(f.current_length, f.current_best_length)
             THEN best
             ELSE <<f.current_route, f.current_length>>
        ELSE <<>>

\* EarlyReturn with a route taken for complete one vertex early
EarlyReturn_OneShort(f) ==
    LET best == <<f.current_best_route, f.current_best_length>>
    IN  IF prog = "TSP_3" /\ Geq(f.current_length, f.current_best_length)
        THEN best
        ELSE IF Len(f.current_visited_vertices) >= NbVertices(complete_graph) - 1
        THEN IF Geq(f.current_length, f.current_best_length)
             THEN best
             ELSE <<f.current_route, f.current_length>>
        ELSE <<>>

\* the value a call of TSP_1 or TSP_3 returns before its loop, <<>> when it goes on
EarlyReturn(f) ==
    LET best == <<f.current_best_route, f.current_best_length>>
    IN  IF prog = "TSP_3" /\ Geq(f.current_length, f.current_best_length)
        THEN best
        ELSE IF Len(f.current_visited_vertices) = NbVertices(complete_graph)
        THEN IF Geq(f.current_length, f.current_best_length)
             THEN best
             ELSE <<f.current_route, f.current_length>>
        ELSE <<>>

\* a call of _tsp, from its entry to its loop or to its early return
tsp_enter ==
    /\ pc = "tsp_enter"
    /\ IF prog = "tsp_1_bis"
       THEN IF Len(Top.route) = NbVertices(complete_graph)
            THEN /\ memory' = IF Top.length < memory.best_length
                              THEN [best_route |-> Top.route, best_length |-> Top.length]
                              ELSE memory
                 /\ ret' = None
                 /\ pc' = "tsp_return"
                 /\ error' = error
            ELSE IF DictHas(complete_graph, Top.vertex)
            THEN /\ pc' = "tsp_loop"
                 /\ UNCHANGED <<memory, ret, error>>
            ELSE /\ pc' = "error"
                 /\ error' = "KeyError"
                 /\ UNCHANGED <<memory, ret>>
       ELSE /\ IF EarlyReturn(Top) = <<>>
               THEN pc' = "tsp_loop" /\ ret' = ret
               ELSE pc' = "tsp_return" /\ ret' = EarlyReturn(Top)
            /\ UNCHANGED <<memory, error>>
    /\ UNCHANGED <<prog, results, gameVars, exploreVars, gmVars, complete_graph, routing_tables, source,
                   sorted_neighbors, stack, best_route, best_length, erVars,
                   maze_route, turnVars>>

\* Callee with the weight of the last edge passed as the length of the route
Callee_LastEdgeOnly(f, vertex) ==
    IF prog = "tsp_1_bis"
    THEN BisFrame(vertex,
                  Weight(complete_graph, f.vertex, vertex),
                  Append(f.route, vertex))
    ELSE Frame(vertex,
               Append(f.current_visited_vertices, vertex),
               Append(f.current_route, vertex),
               Weight(complete_graph, f.current_vertex, vertex),
               f.current_best_route,
               f.current_best_length)

\* the frame of the call the loop of frame f makes for vertex
Callee(f, vertex) ==
    IF prog = "tsp_1_bis"
    THEN BisFrame(vertex,
                  f.length + Weight(complete_graph, f.vertex, vertex),
                  Append(f.route, vertex))
    ELSE Frame(vertex,
               Append(f.current_visited_vertices, vertex),
               Append(f.current_route, vertex),
               f.current_length + Weight(complete_graph, f.current_vertex, vertex),
               f.current_best_route,
               f.current_best_length)

\* the vertices the top frame holds as visited
Visited(f) == IF prog = "tsp_1_bis" THEN f.route ELSE f.current_visited_vertices

\* one turn of the loop of _tsp: a vertex skipped, a call made, or the loop left
tsp_loop ==
    /\ pc = "tsp_loop"
    /\ IF Top.i > Len(LoopList)
       THEN /\ ret' = IF prog = "tsp_1_bis" THEN None
                      ELSE <<Top.current_best_route, Top.current_best_length>>
            /\ pc' = "tsp_return"
            /\ stack' = stack
       ELSE IF In(LoopList[Top.i], Visited(Top))
       THEN /\ stack' = [stack EXCEPT ![Len(stack)].i = @ + 1]
            /\ UNCHANGED <<ret, pc>>
       ELSE /\ stack' = Append(stack, Callee(Top, LoopList[Top.i]))
            /\ pc' = "tsp_enter"
            /\ ret' = ret
    /\ UNCHANGED <<prog, results, gameVars, exploreVars, gmVars, complete_graph, routing_tables, source,
                   sorted_neighbors, memory, best_route, best_length, erVars,
                   maze_route, turnVars, error>>

\* Resumed with the loop left at the place of the call that has returned
Resumed_SamePlace(f) ==
    IF prog = "tsp_1_bis"
    THEN f
    ELSE [f EXCEPT !.current_best_route = ret[1], !.current_best_length = ret[2]]

\* the caller's frame once the call it made has returned
Resumed(f) ==
    IF prog = "tsp_1_bis"
    THEN [f EXCEPT !.i = @ + 1]
    ELSE [f EXCEPT !.current_best_route = ret[1], !.current_best_length = ret[2],
                   !.i = @ + 1]

\* a call of _tsp returns: to the loop of its caller, or to tsp, which returns too
tsp_return ==
    /\ pc = "tsp_return"
    /\ IF Len(stack) = 1
       THEN /\ stack' = <<>>
            /\ best_route' = IF prog = "tsp_1_bis" THEN memory.best_route ELSE ret[1]
            /\ best_length' = IF prog = "tsp_1_bis" THEN memory.best_length ELSE ret[2]
            /\ results' = [results EXCEPT
                               ![Len(results)].returned = <<best_route', best_length'>>]
            /\ pc' = "tsp_done"
       ELSE /\ stack' = [k \in 1..(Len(stack) - 1) |->
                            IF k = Len(stack) - 1 THEN Resumed(stack[k]) ELSE stack[k]]
            /\ pc' = "tsp_loop"
            /\ UNCHANGED <<best_route, best_length, results>>
    /\ UNCHANGED <<prog, gameVars, exploreVars, gmVars, complete_graph, routing_tables, source,
                   sorted_neighbors, ret, memory, erVars, maze_route, turnVars, error>>

(***************************************************************************)
(* tsp on any complete graph.                                              *)
(***************************************************************************)
\* the weights of a complete graph: small ones, and one as large as 10e9
Weights == (0..MaxWeight) \cup {TenE9}

\* the matrices over n vertices with a zero diagonal
Matrices(n) ==
    {m \in [0..(n - 1) -> [0..(n - 1) -> Weights]] : \A v \in 0..(n - 1) : m[v][v] = 0}

\* the dict of dicts tsp_1_bis takes for matrix m: a row per vertex, no diagonal
AsDict(m) ==
    LET keys == Ascending(DOMAIN m)
    IN  [p \in 1..Len(keys) |->
            <<keys[p],
              LET others == Ascending(DOMAIN m \ {keys[p]})
              IN  [q \in 1..Len(others) |-> <<others[q], m[keys[p]][others[q]]>>]>>]

InitTsp ==
    /\ prog \in Programs
    /\ \E n \in 1..MaxNodes : \E m \in Matrices(n) :
          /\ complete_graph = IF prog = "tsp_1_bis" THEN AsDict(m) ELSE m
          /\ source \in 0..(n - 1)
    /\ maze = <<>> /\ maze_width = 0 /\ player_location = None /\ cheese = <<>>
    /\ gm_i = 0 /\ gm_graph = <<>> /\ gm_tables = <<>> /\ oracle_log = <<>>
    /\ routing_tables = <<>>
    /\ sorted_neighbors = <<>> /\ stack = <<>> /\ ret = None
    /\ memory = <<>>
    /\ best_route = NoRoute /\ best_length = None /\ results = <<>>
    /\ er_route = <<>> /\ er_i = 0 /\ er_out = <<>> /\ maze_route = <<>>
    /\ actions_to_perform = <<>> /\ stored_actions = <<>> /\ turns = 0
    /\ action = "" /\ error = ""
    /\ visited_cells = <<>> /\ trajectory = <<>>
    /\ pc = "tsp"

NextTsp == tsp_call \/ tsp_enter \/ tsp_loop \/ tsp_return

SpecTsp == InitTsp /\ [][NextTsp]_vars

(***************************************************************************)
(* The shortest-path oracle and its companions.                            *)
(***************************************************************************)
\* the least of a set of lengths, float("inf") when it holds no finite one
Least(S) ==
    IF S \ {Inf} = {} THEN Inf
    ELSE CHOOSE x \in S \ {Inf} : \A y \in S \ {Inf} : x <= y

RECURSIVE RelaxedFrom(_, _, _, _)
\* one round of relaxing every edge into the cells from c on: d holds the
\* tentative distance of cell k at place k+1, acc those of the cells before c
RelaxedFrom(graph, d, c, acc) ==
    IF c = Len(d) THEN acc
    ELSE RelaxedFrom(graph, d, c + 1,
                     Append(acc,
                            Least({d[c + 1]} \cup
                                  {d[u + 1] + graph[u][c] :
                                      u \in {u \in DOMAIN graph :
                                                c \in DOMAIN graph[u] /\ d[u + 1] # Inf}})))

RECURSIVE Relaxed(_, _, _)
\* the tentative distances d after k more rounds
Relaxed(graph, d, k) ==
    IF k = 0 THEN d ELSE Relaxed(graph, RelaxedFrom(graph, d, 0, <<>>), k - 1)

\* the two rules by which the oracle settles on one of several shortest paths
OracleTies == {"lowest", "highest"}

\* the result of a traversal whose final distances are all (cell k at place k+1)
Traversal(src, graph, ties, all) ==
    LET reached == {c \in DOMAIN graph : all[c + 1] # Inf}
        distances == [c \in reached |-> all[c + 1]]
        before(c) == {u \in reached :
                         c \in DOMAIN graph[u] /\ all[u + 1] + graph[u][c] = all[c + 1]}
        routing_table ==
            [c \in reached |->
                IF c = src THEN None
                ELSE CHOOSE u \in before(c) : \A v \in before(c) :
                         IF ties = "lowest" THEN u <= v ELSE u >= v]
    IN  <<distances, routing_table>>

\* dijkstra.dijkstra(source, graph): the distance of every cell that can be
\* reached, and for each of them the cell before it on a shortest path
dijkstra(src, graph, ties) ==
    Traversal(src, graph, ties,
              Relaxed(graph,
                      [c \in 1..Cardinality(DOMAIN graph) |-> IF c = src + 1 THEN 0 ELSE Inf],
                      Cardinality(DOMAIN graph)))

RECURSIVE find_route(_, _, _)
\* bfs.find_route(routing_table, source, target): the cells from source to
\* target, found by walking the routing table back from target
find_route(routing_table, src, target) ==
    IF target = src THEN <<src>>
    ELSE Append(find_route(routing_table, src, routing_table[target]), target)

\* the tokens of the moves
Moves == {"north", "south", "east", "west"}

\* the two cells are neighbours on a grid of that width
Adjacent(a, b, width) ==
    \/ (b = a + 1 /\ b % width # 0) \/ (a = b + 1 /\ a % width # 0)
    \/ b = a + width \/ a = b + width

\* tutorial.locations_to_action for two neighbouring cells
locations_to_action(a, b, width) ==
    IF b = a + 1 THEN "east" ELSE IF a = b + 1 THEN "west"
    ELSE IF b = a + width THEN "north" ELSE "south"

\* bfs.locations_to_actions(locations, maze_width): one token per consecutive
\* pair; what it does with a pair that is not adjacent is undefined, and is the
\* token (or "raise") passed as undefined
locations_to_actions(locations, width, undefined) ==
    [k \in 1..(Len(locations) - 1) |->
        IF Adjacent(locations[k], locations[k + 1], width)
        THEN locations_to_action(locations[k], locations[k + 1], width)
        ELSE undefined]

\* some consecutive pair of the locations is not adjacent
HasUndefinedMove(locations, width) ==
    \E k \in 1..(Len(locations) - 1) : ~Adjacent(locations[k], locations[k + 1], width)

(***************************************************************************)
(* graph_to_metagraph.                                                     *)
(***************************************************************************)
\* [player_locations[name]] + cheese
locations_of_interest == <<player_location>> \o cheese

\* graph_to_metagraph is entered: its locals are initialised
graph_to_metagraph_call ==
    /\ pc = "gm"
    /\ gm_graph' = IF prog = "tsp_1_bis" THEN <<>>
                   ELSE [i \in 0..(Len(locations_of_interest) - 1) |->
                            [j \in 0..(Len(locations_of_interest) - 1) |-> 0]]
    /\ gm_tables' = <<>>
    /\ gm_i' = 0
    /\ pc' = "gm_loop"
    /\ UNCHANGED <<prog, results, gameVars, exploreVars, oracle_log, complete_graph, routing_tables, source,
                   tspVars, best_route, best_length, erVars, maze_route, turnVars, error>>

RECURSIVE MatrixRow_OneShort(_, _, _, _)
\* MatrixRow with its loop over range(len(vertices) - 1): the last column is left out
MatrixRow_OneShort(vertices, distances, row, j) ==
    IF j >= Len(vertices) - 1 THEN [row |-> row, raised |-> FALSE]
    ELSE IF vertices[j + 1] \notin DOMAIN distances THEN [row |-> row, raised |-> TRUE]
    ELSE MatrixRow_OneShort(vertices, distances,
                            [row EXCEPT ![j] = distances[vertices[j + 1]]], j + 1)

RECURSIVE MatrixRow_Sentinel(_, _, _, _)
\* MatrixRow with distances.get(vertices[j], float("inf")): a missing distance is
\* stored as infinite and the loop goes on
MatrixRow_Sentinel(vertices, distances, row, j) ==
    IF j = Len(vertices) THEN [row |-> row, raised |-> FALSE]
    ELSE MatrixRow_Sentinel(vertices, distances,
                            [row EXCEPT ![j] = IF vertices[j + 1] \in DOMAIN distances
                                               THEN distances[vertices[j + 1]]
                                               ELSE Inf],
                            j + 1)

RECURSIVE MatrixRow(_, _, _, _)
\* TSP_1, for j in range(len(vertices)): complete_graph[i, j] = distances[vertices[j]],
\* from column j on; raised when distances has no vertices[j]
MatrixRow(vertices, distances, row, j) ==
    IF j = Len(vertices) THEN [row |-> row, raised |-> FALSE]
    ELSE IF vertices[j + 1] \notin DOMAIN distances THEN [row |-> row, raised |-> TRUE]
    ELSE MatrixRow(vertices, distances,
                   [row EXCEPT ![j] = distances[vertices[j + 1]]], j + 1)

RECURSIVE DictRow_HalfOnly(_, _, _, _, _)
\* DictRow storing a weight only towards the vertices that come after vertice in
\* the list, as if the other half were to be had by symmetry
DictRow_HalfOnly(vertices, distances, graph, vertice, k) ==
    IF k > Len(vertices) THEN [graph |-> graph, raised |-> FALSE]
    ELSE IF \E a \in k..Len(vertices) : vertices[a] = vertice
    THEN DictRow_HalfOnly(vertices, distances, graph, vertice, k + 1)
    ELSE IF vertices[k] \notin DOMAIN distances THEN [graph |-> graph, raised |-> TRUE]
    ELSE DictRow_HalfOnly(vertices, distances,
                          IF ~DictHas(graph, vertice)
                          THEN DictSet(graph, vertice,
                                       <<<<vertices[k], distances[vertices[k]]>>>>)
                          ELSE DictSet(graph, vertice,
                                       DictSet(DictGet(graph, vertice), vertices[k],
                                               distances[vertices[k]])),
                          vertice, k + 1)

RECURSIVE DictRow(_, _, _, _, _)
\* tsp_1_bis, for cheese in vertices: ... complete_graph[vertice][cheese] = distances[cheese],
\* from the k-th vertex on; raised when distances has no such cheese
DictRow(vertices, distances, graph, vertice, k) ==
    IF k > Len(vertices) THEN [graph |-> graph, raised |-> FALSE]
    ELSE IF vertices[k] = vertice
    THEN DictRow(vertices, distances, graph, vertice, k + 1)
    ELSE IF vertices[k] \notin DOMAIN distances THEN [graph |-> graph, raised |-> TRUE]
    ELSE DictRow(vertices, distances,
                 IF ~DictHas(graph, vertice)
                 THEN DictSet(graph, vertice, <<<<vertices[k], distances[vertices[k]]>>>>)
                 ELSE DictSet(graph, vertice,
                              DictSet(DictGet(graph, vertice), vertices[k],
                                      distances[vertices[k]])),
                 vertice, k + 1)

\* the complete graph after the traversal from vertices[i] has been stored
StoredRow(vertices, distances, graph, i) ==
    IF prog = "tsp_1_bis"
    THEN DictRow(vertices, distances, graph, vertices[i + 1], 1)
    ELSE LET r == MatrixRow(vertices, distances, graph[i], 0)
         IN  [graph |-> [graph EXCEPT ![i] = r.row], raised |-> r.raised]

\* dijkstra is a function: what it returned for a cell before, it returns again
Deterministic(vertice, traversal) ==
    \A call \in 1..Len(oracle_log) :
        oracle_log[call].source = vertice =>
            traversal = <<oracle_log[call].distances, oracle_log[call].routing_table>>

\* graph_to_metagraph_loop over a dijkstra that may settle equal paths
\* otherwise each time it is called
graph_to_metagraph_loop_AnyTies ==
    /\ pc = "gm_loop"
    /\ gm_i < Len(locations_of_interest)
    /\ \E ties \in OracleTies :
          LET vertice == locations_of_interest[gm_i + 1]
              traversal == dijkstra(vertice, maze, ties)
              stored == StoredRow(locations_of_interest, traversal[1], gm_graph, gm_i)
          IN  /\ oracle_log' = Append(oracle_log,
                     [source |-> vertice, distances |-> traversal[1],
                      routing_table |-> traversal[2]])
              /\ gm_graph' = stored.graph
              /\ gm_tables' = IF prog = "tsp_1_bis" \/ ~stored.raised
                              THEN (vertice :> traversal[2]) @@ gm_tables
                              ELSE gm_tables
              /\ IF stored.raised
                 THEN pc' = "error" /\ error' = "KeyError" /\ gm_i' = gm_i
                 ELSE pc' = pc /\ error' = error /\ gm_i' = gm_i + 1
    /\ UNCHANGED <<prog, results, gameVars, exploreVars, complete_graph, routing_tables, source, tspVars,
                   best_route, best_length, erVars, maze_route, turnVars>>

\* one turn of the loop of graph_to_metagraph: a traversal and what is stored of it
graph_to_metagraph_loop ==
    /\ pc = "gm_loop"
    /\ gm_i < Len(locations_of_interest)
    /\ \E ties \in OracleTies :
          LET vertice == locations_of_interest[gm_i + 1]
              traversal == dijkstra(vertice, maze, ties)
              stored == StoredRow(locations_of_interest, traversal[1], gm_graph, gm_i)
          IN  /\ Deterministic(vertice, traversal)
              /\ oracle_log' = Append(oracle_log,
                     [source |-> vertice, distances |-> traversal[1],
                      routing_table |-> traversal[2]])
              /\ gm_graph' = stored.graph
              /\ gm_tables' = IF prog = "tsp_1_bis" \/ ~stored.raised
                              THEN (vertice :> traversal[2]) @@ gm_tables
                              ELSE gm_tables
              /\ IF stored.raised
                 THEN pc' = "error" /\ error' = "KeyError" /\ gm_i' = gm_i
                 ELSE pc' = pc /\ error' = error /\ gm_i' = gm_i + 1
    /\ UNCHANGED <<prog, results, gameVars, exploreVars, complete_graph, routing_tables, source, tspVars,
                   best_route, best_length, erVars, maze_route, turnVars>>

\* graph_to_metagraph returns, and preprocessing calls tsp on what it returned
graph_to_metagraph_return ==
    /\ pc = "gm_loop"
    /\ gm_i = Len(locations_of_interest)
    /\ complete_graph' = gm_graph
    /\ routing_tables' = gm_tables
    /\ source' = IF prog = "tsp_1_bis" THEN player_location ELSE 0
    /\ pc' = "tsp"
    /\ UNCHANGED <<prog, results, gameVars, exploreVars, gmVars, tspVars, best_route, best_length, erVars,
                   maze_route, turnVars, error>>

(***************************************************************************)
(* expand_route.                                                           *)
(***************************************************************************)
\* preprocessing calls expand_route on the route tsp returned
expand_route_call ==
    /\ pc = "tsp_done"
    /\ er_route' = best_route
    /\ er_i' = 0
    /\ er_out' = <<>>
    /\ IF prog # "tsp_1_bis" /\ best_route = NoRoute
       THEN pc' = "error" /\ error' = "TypeError"
       ELSE pc' = "er_loop" /\ error' = error
    /\ UNCHANGED <<prog, results, gameVars, exploreVars, gmVars, complete_graph, routing_tables, source,
                   tspVars, best_route, best_length, maze_route, turnVars>>

\* the cell of the k-th element (from 0) of the route handed to expand_route
CellOf(k) ==
    IF prog = "tsp_1_bis" THEN er_route[k + 1]
    ELSE locations_of_interest[er_route[k + 1] + 1]

\* route_portion, its last element kept
AllButLast_Kept(list) == list

\* route_portion[:-1]
AllButLast(list) == SubSeq(list, 1, Len(list) - 1)

\* what one turn of the loop of expand_route adds to the route
Portion(i) ==
    LET route_portion == find_route(routing_tables[CellOf(i)], CellOf(i), CellOf(i + 1))
    IN  IF prog = "tsp_1_bis" THEN route_portion ELSE AllButLast(route_portion)

\* one turn of the loop of expand_route
expand_route_loop ==
    /\ pc = "er_loop"
    /\ er_i < Len(er_route) - 1
    /\ IF \/ CellOf(er_i) \notin DOMAIN routing_tables
          \/ CellOf(er_i + 1) \notin DOMAIN routing_tables[CellOf(er_i)]
       THEN pc' = "error" /\ error' = "KeyError" /\ UNCHANGED <<er_out, er_i>>
       ELSE /\ er_out' = er_out \o Portion(er_i)
            /\ er_i' = er_i + 1
            /\ UNCHANGED <<pc, error>>
    /\ UNCHANGED <<prog, results, gameVars, exploreVars, gmVars, complete_graph, routing_tables, source,
                   tspVars, best_route, best_length, er_route, maze_route, turnVars>>

\* Expanded without route.append(locations[route_in_complete_graph[-1]])
Expanded_NoLast == er_out

\* the route expand_route returns once its loop is over
Expanded ==
    IF prog = "tsp_1_bis" THEN er_out
    ELSE Append(er_out, CellOf(Len(er_route) - 1))

\* expand_route returns the route of the maze
expand_route_return ==
    /\ pc = "er_loop"
    /\ er_i >= Len(er_route) - 1
    /\ IF prog # "tsp_1_bis" /\ er_route = <<>>
       THEN pc' = "error" /\ error' = "IndexError" /\ maze_route' = maze_route
       ELSE pc' = "er_done" /\ error' = error /\ maze_route' = Expanded
    /\ UNCHANGED <<prog, results, gameVars, exploreVars, gmVars, complete_graph, routing_tables, source,
                   tspVars, best_route, best_length, erVars, turnVars>>

(***************************************************************************)
(* The end of preprocessing, and turn.                                     *)
(***************************************************************************)
\* memory.actions_to_perform = locations_to_actions(maze_route, maze_width)
store_actions ==
    /\ pc = "er_done"
    /\ \E undefined \in Moves \cup {"nothing", "raise"} :
          IF undefined = "raise" /\ HasUndefinedMove(maze_route, maze_width)
          THEN /\ pc' = "error" /\ error' = "Exception"
               /\ UNCHANGED <<actions_to_perform, stored_actions>>
          ELSE /\ actions_to_perform' = locations_to_actions(maze_route, maze_width, undefined)
               /\ stored_actions' = actions_to_perform'
               /\ pc' = "turn" /\ error' = error
    /\ UNCHANGED <<prog, results, gameVars, exploreVars, gmVars, complete_graph, routing_tables, source,
                   tspVars, best_route, best_length, erVars, maze_route, turns, action>>

\* list.pop(): the last element taken
pop0_Last(list) == <<list[Len(list)], SubSeq(list, 1, Len(list) - 1)>>

\* turn returning "nothing" once the queue is empty
turn_Default ==
    /\ pc = "turn"
    /\ IF actions_to_perform = <<>>
       THEN /\ action' = "nothing"
            /\ turns' = turns + 1
            /\ UNCHANGED <<actions_to_perform, pc, error>>
       ELSE /\ action' = Head(actions_to_perform)
            /\ actions_to_perform' = Tail(actions_to_perform)
            /\ turns' = turns + 1
            /\ UNCHANGED <<pc, error>>
    /\ turns < Len(stored_actions) + 2
    /\ UNCHANGED <<prog, results, gameVars, exploreVars, gmVars, complete_graph, routing_tables, source,
                   tspVars, best_route, best_length, erVars, maze_route, stored_actions>>

\* list[0]: the first element read, and the list left as it is
pop0_Peek(list) == <<Head(list), list>>

\* list.pop(0): the element taken, and the list it leaves
pop0(list) == <<Head(list), Tail(list)>>

\* action = memory.actions_to_perform.pop(0); return action
turn ==
    /\ pc = "turn"
    /\ IF actions_to_perform = <<>>
       THEN /\ pc' = "error" /\ error' = "IndexError"
            /\ UNCHANGED <<actions_to_perform, turns, action>>
       ELSE /\ action' = pop0(actions_to_perform)[1]
            /\ actions_to_perform' = pop0(actions_to_perform)[2]
            /\ turns' = turns + 1
            /\ UNCHANGED <<pc, error>>
    /\ UNCHANGED <<prog, results, gameVars, exploreVars, gmVars, complete_graph, routing_tables, source,
                   tspVars, best_route, best_length, erVars, maze_route, stored_actions>>

(***************************************************************************)
(* A game: a maze, a player and some cheese.                               *)
(***************************************************************************)
\* the pairs of cells of a maze of n cells that may be linked by an edge
Walls(n, width) ==
    {e \in (0..(n - 1)) \X (0..(n - 1)) :
        \/ (e[2] = e[1] + 1 /\ e[2] % width # 0)
        \/ e[2] = e[1] + width}

\* the maze in which edge e has weight mud[e], and is absent when that is 0
MazeOf(n, mud) ==
    [c \in 0..(n - 1) |->
        [d \in {d \in 0..(n - 1) :
                   \/ (<<c, d>> \in DOMAIN mud /\ mud[<<c, d>>] > 0)
                   \/ (<<d, c>> \in DOMAIN mud /\ mud[<<d, c>>] > 0)} |->
            IF <<c, d>> \in DOMAIN mud THEN mud[<<c, d>>] ELSE mud[<<d, c>>]]]

\* the lists of at most MaxCheese distinct cells other than the player's
CheeseLists(n, player) ==
    {l \in UNION {[1..k -> (0..(n - 1)) \ {player}] : k \in 0..MaxCheese} :
        \A a, b \in 1..Len(l) : l[a] = l[b] => a = b}

Init ==
    /\ prog \in Programs
    /\ \E n \in 1..MaxCells :
          /\ maze_width \in 1..MaxWidth
          /\ \E mud \in [Walls(n, maze_width) -> 0..MaxMud] : maze = MazeOf(n, mud)
          /\ player_location \in 0..(n - 1)
          /\ cheese \in CheeseLists(n, player_location)
    /\ gm_i = 0 /\ gm_graph = <<>> /\ gm_tables = <<>> /\ oracle_log = <<>>
    /\ complete_graph = <<>> /\ routing_tables = <<>> /\ source = None
    /\ sorted_neighbors = <<>> /\ stack = <<>> /\ ret = None
    /\ memory = <<>>
    /\ best_route = NoRoute /\ best_length = None /\ results = <<>>
    /\ er_route = <<>> /\ er_i = 0 /\ er_out = <<>> /\ maze_route = <<>>
    /\ actions_to_perform = <<>> /\ stored_actions = <<>> /\ turns = 0
    /\ action = "" /\ error = ""
    /\ visited_cells = <<>> /\ trajectory = <<>>
    /\ pc = "gm"

\* preprocessing, then the turns of the game
Next ==
    \/ graph_to_metagraph_call \/ graph_to_metagraph_loop \/ graph_to_metagraph_return
    \/ tsp_call \/ tsp_enter \/ tsp_loop \/ tsp_return
    \/ expand_route_call \/ expand_route_loop \/ expand_route_return
    \/ store_actions \/ turn

Spec == Init /\ [][Next]_vars

(***************************************************************************)
(* expand_route on any route through the locations of interest.            *)
(***************************************************************************)
\* the routes expand_route may be handed: the orders in which the vertices of
\* the complete graph can be visited (indices in TSP_1, cells in tsp_1_bis)
AnyRoutes ==
    LET n == Len(locations_of_interest)
        names == IF prog = "tsp_1_bis"
                 THEN {locations_of_interest[k] : k \in 1..n}
                 ELSE 0..(n - 1)
    IN  {r \in [1..n -> names] : \A a, b \in 1..n : r[a] = r[b] => a = b}

\* expand_route is called on one of them, with the routing tables just built
expand_route_any ==
    /\ pc = "tsp"
    /\ er_route' \in AnyRoutes
    /\ er_i' = 0
    /\ er_out' = <<>>
    /\ pc' = "er_loop"
    /\ UNCHANGED <<prog, results, gameVars, exploreVars, gmVars, complete_graph, routing_tables, source,
                   tspVars, best_route, best_length, maze_route, turnVars, error>>

NextExpand ==
    \/ graph_to_metagraph_call \/ graph_to_metagraph_loop \/ graph_to_metagraph_return
    \/ expand_route_any \/ expand_route_loop \/ expand_route_return

SpecExpand == Init /\ [][NextExpand]_vars

(***************************************************************************)
(* graph_to_metagraph run again on the same maze and locations.            *)
(***************************************************************************)
\* graph_to_metagraph has been run once, and is called a second time with the
\* arguments of the first; its caller still holds what the first run returned
graph_to_metagraph_again ==
    /\ pc = "tsp"
    /\ Len(oracle_log) = Len(locations_of_interest)
    /\ pc' = "gm"
    /\ UNCHANGED <<prog, results, gameVars, exploreVars, gmVars, complete_graph, routing_tables, source,
                   tspVars, best_route, best_length, erVars, maze_route, turnVars, error>>

NextRebuild ==
    \/ graph_to_metagraph_call \/ graph_to_metagraph_loop \/ graph_to_metagraph_return
    \/ graph_to_metagraph_again

SpecRebuild == Init /\ [][NextRebuild]_vars

(***************************************************************************)
(* The tsp of TSP_1 and the tsp of TSP_3 on the same complete graph.       *)
(***************************************************************************)
InitBoth == InitTsp /\ prog \in {"TSP_1", "TSP_3"}

\* the complete graph and the source that the tsp of one of the two programs
\* was called on are handed to the tsp of the other
tsp_other ==
    /\ pc = "tsp_done"
    /\ Len(results) = 1
    /\ prog' = IF prog = "TSP_1" THEN "TSP_3" ELSE "TSP_1"
    /\ pc' = "tsp"
    /\ UNCHANGED <<results, gameVars, exploreVars, gmVars, complete_graph, routing_tables, source,
                   tspVars, best_route, best_length, erVars, maze_route, turnVars, error>>

NextBoth == tsp_call \/ tsp_enter \/ tsp_loop \/ tsp_return \/ tsp_other

SpecBoth == InitBoth /\ [][NextBoth]_vars

(***************************************************************************)
(* tsp called again: on another complete graph, then on the first one.     *)
(***************************************************************************)
\* calls of tsp in a row
MaxCalls == 3

\* the complete graphs of the repeated calls: any of fewer than MaxNodes
\* vertices, and the symmetric ones of MaxNodes vertices with weights 1..MaxWeight
AgainMatrices ==
    UNION {Matrices(n) : n \in 1..(MaxNodes - 1)}
    \cup {m \in [0..(MaxNodes - 1) -> [0..(MaxNodes - 1) -> 0..MaxWeight]] :
             \A u, v \in 0..(MaxNodes - 1) :
                 /\ m[u][v] = m[v][u]
                 /\ (m[u][v] = 0) = (u = v)}

InitAgain ==
    /\ prog \in Programs
    /\ \E m \in AgainMatrices :
          /\ complete_graph = IF prog = "tsp_1_bis" THEN AsDict(m) ELSE m
          /\ source \in DOMAIN m
    /\ maze = <<>> /\ maze_width = 0 /\ player_location = None /\ cheese = <<>>
    /\ gm_i = 0 /\ gm_graph = <<>> /\ gm_tables = <<>> /\ oracle_log = <<>>
    /\ routing_tables = <<>>
    /\ sorted_neighbors = <<>> /\ stack = <<>> /\ ret = None
    /\ memory = <<>>
    /\ best_route = NoRoute /\ best_length = None /\ results = <<>>
    /\ er_route = <<>> /\ er_i = 0 /\ er_out = <<>> /\ maze_route = <<>>
    /\ actions_to_perform = <<>> /\ stored_actions = <<>> /\ turns = 0
    /\ action = "" /\ error = ""
    /\ visited_cells = <<>> /\ trajectory = <<>>
    /\ pc = "tsp"

\* the caller of tsp calls it once more, with the memory object it passed
\* before or with a new one; the last of the calls is given the complete graph
\* and the source of the first
tsp_again ==
    /\ pc = "tsp_done"
    /\ Len(results) < MaxCalls
    /\ IF Len(results) = MaxCalls - 1
       THEN /\ complete_graph' = results[1].complete_graph
            /\ source' = results[1].source
       ELSE \E m \in AgainMatrices :
               /\ complete_graph' = IF prog = "tsp_1_bis" THEN AsDict(m) ELSE m
               /\ source' \in DOMAIN m
    /\ \E same \in BOOLEAN : memory' = IF same THEN memory ELSE <<>>
    /\ pc' = "tsp"
    /\ UNCHANGED <<prog, results, gameVars, exploreVars, gmVars, routing_tables, sorted_neighbors,
                   stack, ret, best_route, best_length, erVars, maze_route, turnVars,
                   error>>

NextAgain == tsp_call \/ tsp_enter \/ tsp_loop \/ tsp_return \/ tsp_again

SpecAgain == InitAgain /\ [][NextAgain]_vars

(***************************************************************************)
(* template_2players: a player that explores the maze and backtracks.      *)
(***************************************************************************)
\* tutorial.get_neighbors on the maze: the cells linked to the cell by an edge
maze_neighbors(cell) == Ascending(DOMAIN maze[cell])

\* the cell the game takes the player to when it plays the action
Moved(cell, token, width) ==
    CASE token = "east" -> cell + 1
      [] token = "west" -> cell - 1
      [] token = "north" -> cell + width
      [] token = "south" -> cell - width
      [] OTHER -> cell

\* the game of template_2players: no mud, preprocessing has returned
Init2Players ==
    /\ prog = "template_2players"
    /\ \E n \in 1..MaxCells :
          /\ maze_width \in 1..MaxWidth
          /\ \E mud \in [Walls(n, maze_width) -> 0..1] : maze = MazeOf(n, mud)
          /\ player_location \in 0..(n - 1)
          /\ cheese \in CheeseLists(n, player_location)
    /\ gm_i = 0 /\ gm_graph = <<>> /\ gm_tables = <<>> /\ oracle_log = <<>>
    /\ complete_graph = <<>> /\ routing_tables = <<>> /\ source = None
    /\ sorted_neighbors = <<>> /\ stack = <<>> /\ ret = None
    /\ memory = <<>>
    /\ best_route = NoRoute /\ best_length = None /\ results = <<>>
    /\ er_route = <<>> /\ er_i = 0 /\ er_out = <<>> /\ maze_route = <<>>
    /\ actions_to_perform = <<>> /\ stored_actions = <<>> /\ turns = 0
    /\ action = "" /\ error = ""
    /\ visited_cells = <<>> /\ trajectory = <<>>
    /\ pc = "turn_2players"

\* list.pop(): the list it leaves
Pop(list) == SubSeq(list, 1, Len(list) - 1)

\* memory.visited_cells once turn has marked the player's cell
Marked ==
    IF In(player_location, visited_cells) THEN visited_cells
    ELSE Append(visited_cells, player_location)

\* unvisited_neighbors, as a set: random.choice takes any of them
unvisited_neighbors ==
    {maze_neighbors(player_location)[k] : k \in 1..Len(maze_neighbors(player_location))}
        \ {Marked[k] : k \in 1..Len(Marked)}

\* turn returns the action towards neighbor, leaving its memory as given
Returns(neighbor, visited, traj) ==
    /\ action' = locations_to_action(player_location, neighbor, maze_width)
    /\ visited_cells' = visited
    /\ trajectory' = traj
    /\ turns' = turns + 1
    /\ pc' = "move"
    /\ error' = error

\* turn raises, leaving its memory as given
Raises(exception, visited, traj) ==
    /\ pc' = "error" /\ error' = exception
    /\ visited_cells' = visited
    /\ trajectory' = traj
    /\ UNCHANGED <<action, turns>>

\* turn of template_2players
turn_2players ==
    /\ pc = "turn_2players"
    /\ LET pushed == Append(trajectory, player_location)
           popped == Pop(pushed)
       IN  IF unvisited_neighbors # {}
           THEN \E neighbor \in unvisited_neighbors :
                    Returns(neighbor, Append(Marked, neighbor), pushed)
           ELSE IF Len(pushed) > 0
           THEN IF popped = <<>>
                THEN Raises("IndexError", Marked, popped)
                ELSE Returns(popped[Len(popped)], Marked, Pop(popped))
           ELSE IF maze_neighbors(player_location) = <<>>
                THEN Raises("IndexError", Marked, pushed)
                ELSE \E k \in 1..Len(maze_neighbors(player_location)) :
                         Returns(maze_neighbors(player_location)[k], Marked, pushed)
    /\ UNCHANGED <<prog, results, gameVars, gmVars, complete_graph, routing_tables, source,
                   tspVars, best_route, best_length, erVars, maze_route,
                   actions_to_perform, stored_actions>>

\* the game plays the action that turn returned, and calls turn again
game_move ==
    /\ pc = "move"
    /\ player_location' = Moved(player_location, action, maze_width)
    /\ pc' = "turn_2players"
    /\ UNCHANGED <<prog, results, maze, maze_width, cheese, exploreVars, gmVars,
                   complete_graph, routing_tables, source, tspVars, best_route,
                   best_length, erVars, maze_route, turnVars, error>>

Next2Players == turn_2players \/ game_move

Spec2Players == Init2Players /\ [][Next2Players]_vars

(***************************************************************************)
(* What tsp is to return: the shortest open route from the source.         *)
(***************************************************************************)
RECURSIVE RouteLength(_, _)
\* the sum of the weights between the consecutive vertices of a route
RouteLength(graph, r) ==
    IF Len(r) <= 1 THEN 0
    ELSE Weight(graph, r[1], r[2]) + RouteLength(graph, Tail(r))

\* the set of the vertices of the complete graph
VertexSet(graph) == {Vertices(graph)[k] : k \in 1..Len(Vertices(graph))}

\* r holds every vertex of the complete graph exactly once
IsPermutation(graph, r) ==
    /\ Len(r) = NbVertices(graph)
    /\ {r[k] : k \in 1..Len(r)} = VertexSet(graph)

\* the routes through all the vertices that begin at vertex s
RoutesFrom(graph, s) ==
    {r \in [1..NbVertices(graph) -> VertexSet(graph)] :
        r[1] = s /\ IsPermutation(graph, r)}

\* the length of the shortest of them
ShortestLength(graph, s) ==
    CHOOSE l \in {RouteLength(graph, r) : r \in RoutesFrom(graph, s)} :
        \A r \in RoutesFrom(graph, s) : l <= RouteLength(graph, r)

\* C1: the length tsp returns is the minimum, over the permutations of the
\* vertices that begin at the source, of the sum of the consecutive weights.
C1_Exactness ==
    pc = "tsp_done" => best_length = ShortestLength(complete_graph, source)

\* C1, as far as the code goes: the length is exact in TSP_1 and TSP_3, and in
\* tsp_1_bis whenever the shortest route is shorter than its initial 10e9.
C1_ExactBelowTenE9 ==
    (pc = "tsp_done" /\ (prog = "tsp_1_bis" => ShortestLength(complete_graph, source) < TenE9))
        => best_length = ShortestLength(complete_graph, source)

\* C1: tsp_1_bis has returned a length above the unit weights' reach
C1_Reached ==
    /\ pc = "tsp_done" /\ NbVertices(complete_graph) = MaxNodes
    /\ best_length = ShortestLength(complete_graph, source)
    /\ best_length > 0 /\ best_length < TenE9

\* C2: the route tsp returns holds every vertex exactly once and begins at
\* the source.
C2_RouteIsPermutation ==
    pc = "tsp_done" => (IsPermutation(complete_graph, best_route) /\ best_route[1] = source)

\* C2, as far as the code goes: so it is unless tsp_1_bis found no route
\* shorter than its initial 10e9, when the route it returns is empty.
C2_PermutationBelowTenE9 ==
    pc = "tsp_done" =>
        IF prog = "tsp_1_bis" /\ ShortestLength(complete_graph, source) >= TenE9
        THEN best_route = <<>>
        ELSE IsPermutation(complete_graph, best_route) /\ best_route[1] = source

\* C3: the length tsp returns is the sum of the weights between the
\* consecutive vertices of the route it returns.
C3_LengthOfRoute ==
    pc = "tsp_done" => best_length = RouteLength(complete_graph, best_route)

\* C3, as far as the code goes: so it is unless tsp_1_bis found no route
\* shorter than its initial 10e9, when it returns the empty route with 10e9.
C3_LengthBelowTenE9 ==
    pc = "tsp_done" =>
        IF prog = "tsp_1_bis" /\ ShortestLength(complete_graph, source) >= TenE9
        THEN best_length = TenE9
        ELSE best_length = RouteLength(complete_graph, best_route)

(***************************************************************************)
(* graph_to_metagraph: what it returns, and when it raises.                *)
(***************************************************************************)
\* graph_to_metagraph has raised
GmRaised == pc = "error" /\ gm_i < Len(locations_of_interest)

\* graph_to_metagraph has returned
GmReturned == pc \notin {"gm", "gm_loop"} /\ ~GmRaised

RECURSIVE ReachedFrom(_, _)
\* the cells that can be reached from those of S
ReachedFrom(graph, S) ==
    LET T == S \cup UNION {DOMAIN graph[c] : c \in S}
    IN  IF T = S THEN S ELSE ReachedFrom(graph, T)

\* every cell of the maze can be reached from every other
Connected(graph) == ReachedFrom(graph, {0}) = DOMAIN graph

\* the names of the vertices of the complete graph of this game
VertexNames ==
    IF prog = "tsp_1_bis"
    THEN {locations_of_interest[k] : k \in 1..Len(locations_of_interest)}
    ELSE 0..(Len(locations_of_interest) - 1)

\* the complete graph holds a weight from u to v
HasWeight(graph, u, v) ==
    IF prog = "tsp_1_bis"
    THEN DictHas(graph, u) /\ DictHas(DictGet(graph, u), v)
    ELSE u \in DOMAIN graph /\ v \in DOMAIN graph[u]

\* C4: the matrix TSP_1.graph_to_metagraph returns has one row and one column
\* per vertex, and its entry (i, j) is the distance to vertices[j] in the
\* distances that dijkstra returned for vertices[i].
C4_EntriesFromOracle ==
    (prog # "tsp_1_bis" /\ GmReturned) =>
        LET n == Len(locations_of_interest)
        IN  /\ DOMAIN complete_graph = 0..(n - 1)
            /\ Len(oracle_log) = n
            /\ \A i, j \in 0..(n - 1) :
                  /\ DOMAIN complete_graph[i] = 0..(n - 1)
                  /\ oracle_log[i + 1].source = locations_of_interest[i + 1]
                  /\ complete_graph[i][j] =
                         oracle_log[i + 1].distances[locations_of_interest[j + 1]]

\* C4: TSP_1 has built the matrix of three vertices at different distances
C4_Reached ==
    /\ prog = "TSP_1" /\ GmReturned /\ Len(locations_of_interest) = 3
    /\ complete_graph[0][2] > complete_graph[0][1]
    /\ complete_graph[2][1] > complete_graph[0][1]

Unreachable(call) ==
    \E k \in 1..Len(locations_of_interest) :
        locations_of_interest[k] \notin DOMAIN oracle_log[call].distances

\* C6: once a traversal has found no distance for some vertex,
\* graph_to_metagraph has raised, at that very traversal; preprocessing has got
\* no complete graph and no routing tables, and no weight stored is infinite.
C6_UnreachableRaises ==
    /\ (\E call \in 1..Len(oracle_log) : Unreachable(call)) =>
          /\ pc = "error" /\ error = "KeyError"
          /\ Unreachable(Len(oracle_log))
          /\ \A call \in 1..(Len(oracle_log) - 1) : ~Unreachable(call)
          /\ complete_graph = <<>> /\ routing_tables = <<>>
          /\ stack = <<>> /\ stored_actions = <<>>
    /\ (prog # "tsp_1_bis" /\ pc # "gm") =>
          \A i, j \in 0..(Len(locations_of_interest) - 1) : gm_graph[i][j] \in Nat
    /\ (prog = "tsp_1_bis" /\ pc # "gm") =>
          \A u, v \in VertexNames :
              HasWeight(gm_graph, u, v) => Weight(gm_graph, u, v) \in Nat

\* C6: a traversal reached the first piece of cheese and not the second, and
\* graph_to_metagraph raised
C6_Reached ==
    /\ GmRaised /\ error = "KeyError" /\ Len(cheese) = 2
    /\ cheese[1] \in DOMAIN oracle_log[Len(oracle_log)].distances
    /\ cheese[2] \notin DOMAIN oracle_log[Len(oracle_log)].distances

(***************************************************************************)
(* expand_route: the route of the maze.                                    *)
(***************************************************************************)
RECURSIVE IsSubsequence(_, _)
\* the elements of sub are found in list, in that order
IsSubsequence(sub, list) ==
    IF sub = <<>> THEN TRUE
    ELSE IF list = <<>> THEN FALSE
    ELSE IF Head(sub) = Head(list) THEN IsSubsequence(Tail(sub), Tail(list))
    ELSE IsSubsequence(sub, Tail(list))

\* no two consecutive elements of the list are equal
NoRepeat(list) == \A k \in 1..(Len(list) - 1) : list[k] # list[k + 1]

\* the cells of the route handed to expand_route
CellsOfRoute == [k \in 1..Len(er_route) |-> CellOf(k - 1)]

\* C7: TSP_1.expand_route, on any order of the vertices, returns a route of the
\* maze that holds the cells of the vertices in that order, begins at the
\* first, ends at the last, and never holds the same cell twice in a row.
C7_ExpandedRoute ==
    prog # "tsp_1_bis" =>
        /\ pc = "error" => GmRaised
        /\ pc = "er_done" =>
              /\ IsSubsequence(CellsOfRoute, maze_route)
              /\ maze_route[1] = CellsOfRoute[1]
              /\ maze_route[Len(maze_route)] = CellsOfRoute[Len(er_route)]
              /\ NoRepeat(maze_route)

\* C7: TSP_1.expand_route has returned a route through three vertices, not
\* begun at the player's, with cells between them
C7_Reached ==
    /\ prog = "TSP_1" /\ pc = "er_done" /\ Len(er_route) = 3 /\ er_route[1] # 0
    /\ Len(maze_route) > 3

\* C8: tsp_1_bis.expand_route, on a route of two vertices or more, returns a
\* route of the maze that never holds the same cell twice in a row and that
\* ends with the last vertex of the route, once.
C8_JunctionsOnce ==
    (prog = "tsp_1_bis" /\ pc = "er_done" /\ Len(er_route) >= 2) =>
        /\ NoRepeat(maze_route)
        /\ maze_route # <<>>
        /\ maze_route[Len(maze_route)] = er_route[Len(er_route)]

\* C8, as far as the code goes: so it is on a route of two vertices; on a longer
\* one every vertex between the first and the last comes twice in a row.
C8_JunctionsTwice ==
    (prog = "tsp_1_bis" /\ pc = "er_done" /\ Len(er_route) >= 2) =>
        /\ maze_route[Len(maze_route)] = er_route[Len(er_route)]
        /\ Len(er_route) = 2 => NoRepeat(maze_route)
        /\ Len(er_route) > 2 =>
              \A k \in 2..(Len(er_route) - 1) :
                  \E q \in 1..(Len(maze_route) - 1) :
                      maze_route[q] = er_route[k] /\ maze_route[q + 1] = er_route[k]

(***************************************************************************)
(* turn: the queue of actions.                                             *)
(***************************************************************************)
\* C9: the k-th call of turn has returned the k-th action of the queue that
\* preprocessing stored, and has left the actions after it, in their order.
C9_TurnsInOrder ==
    pc = "turn" =>
        /\ turns <= Len(stored_actions)
        /\ turns >= 1 => action = stored_actions[turns]
        /\ actions_to_perform = SubSeq(stored_actions, turns + 1, Len(stored_actions))

\* C9: turn has been called twice on a queue of three different actions or more
C9_Reached ==
    /\ pc = "turn" /\ turns = 2 /\ Len(stored_actions) >= 3
    /\ stored_actions[1] # stored_actions[2] /\ stored_actions[2] # stored_actions[3]
    /\ action = stored_actions[2]

\* C10: a call of turn on an empty queue ends the program with an IndexError:
\* it returns no action, and the queue stays empty.
C10_EmptyQueueIsFatal ==
    [][(pc = "turn" /\ actions_to_perform = <<>>) =>
          /\ pc' = "error" /\ error' = "IndexError"
          /\ action' = action /\ turns' = turns
          /\ actions_to_perform' = <<>>]_vars

\* C10: turn was called once more than the queue held actions, and raised
C10_Reached ==
    /\ pc = "error" /\ error = "IndexError" /\ actions_to_perform = <<>>
    /\ stored_actions # <<>> /\ turns = Len(stored_actions)
    /\ action = stored_actions[Len(stored_actions)]

(***************************************************************************)
(* preprocessing when there is no cheese.                                  *)
(***************************************************************************)
\* graph_to_metagraph, tsp and expand_route have all returned
PipelineDone == pc \in {"er_done", "turn"} \/ (pc = "error" /\ maze_route # <<>>)

\* C11: with the player's cell as the only location of interest,
\* graph_to_metagraph, tsp and expand_route raise nothing, and the route of the
\* maze they yield is the player's cell alone.
C11_SingletonSucceeds ==
    cheese = <<>> =>
        /\ pc = "error" => PipelineDone
        /\ PipelineDone => maze_route = <<player_location>>

\* C11, as far as the code goes: so it is in TSP_1 and TSP_3; tsp_1_bis builds
\* the empty dict and its tsp raises a KeyError at graph[vertex].
C11_SingletonKeyErrorInBis ==
    cheese = <<>> =>
        IF prog = "tsp_1_bis"
        THEN /\ pc \notin {"tsp_loop", "tsp_return", "tsp_done", "er_loop", "er_done", "turn"}
             /\ pc = "error" => (error = "KeyError" /\ Len(stack) = 1 /\ complete_graph = <<>>)
        ELSE /\ pc = "error" => PipelineDone
             /\ PipelineDone => maze_route = <<player_location>>

(***************************************************************************)
(* What a call of tsp writes.                                              *)
(***************************************************************************)
\* the program is inside a call of tsp
InTsp == pc \in {"tsp", "tsp_enter", "tsp_loop", "tsp_return"}

\* C12: no step of a call of tsp writes the complete graph, its argument
\* source, or the memory object its caller passed in.
C12_NoEffectOnCaller ==
    [][InTsp => (complete_graph' = complete_graph /\ source' = source /\ memory' = memory)]_vars

\* C12, as far as the code goes: no call writes the complete graph or source,
\* and TSP_1 and TSP_3 write nothing else their caller holds; tsp_1_bis sets
\* best_route and best_length on the memory it was passed.
C12_OnlyMemoryWritten ==
    [][InTsp => /\ complete_graph' = complete_graph /\ source' = source
                /\ prog # "tsp_1_bis" => memory' = memory]_vars

(***************************************************************************)
(* The incumbent of a call of tsp and the calls before it.                 *)
(***************************************************************************)
\* the a-th and the b-th call of tsp were given the same complete graph and
\* source by the same program (and in TSP_3 sorted the neighbours alike)
SameCall(a, b) ==
    /\ results[a].prog = results[b].prog
    /\ results[a].complete_graph = results[b].complete_graph
    /\ results[a].source = results[b].source
    /\ results[a].sorted_neighbors = results[b].sorted_neighbors

\* C13: two calls of tsp on the same complete graph and source return the same
\* route and length, whatever calls came between them and whatever the memory
\* object they were given holds.
C13_IncumbentNotShared ==
    \A a, b \in 1..Len(results) :
        (SameCall(a, b) /\ results[a].returned # <<>> /\ results[b].returned # <<>>)
            => results[a].returned = results[b].returned

\* C13: tsp_1_bis was called on a complete graph, then on another whose best
\* route is shorter, then on the first again with the memory the second call
\* left, and returned what it had returned the first time
C13_Reached ==
    /\ Len(results) = MaxCalls /\ pc = "tsp_done" /\ prog = "tsp_1_bis"
    /\ DOMAIN results[MaxCalls].memory # {}
    /\ results[MaxCalls].memory.best_length < results[1].returned[2]
    /\ results[MaxCalls].memory.best_length = results[MaxCalls - 1].returned[2]
    /\ results[MaxCalls].returned = results[1].returned
    /\ Len(results[1].returned[1]) = MaxNodes

(***************************************************************************)
(* The length tsp reports and the route of the maze.                       *)
(***************************************************************************)
\* every two consecutive cells of the route are linked by an edge of the maze
IsWalk(route) ==
    \A k \in 1..(Len(route) - 1) : route[k + 1] \in DOMAIN maze[route[k]]

RECURSIVE MazeLength(_)
\* the sum of the weights of the maze between the consecutive cells of a walk
MazeLength(route) ==
    IF Len(route) <= 1 THEN 0
    ELSE maze[route[1]][route[2]] + MazeLength(Tail(route))

\* every edge of the maze has weight 1
UnitWeights == \A c \in DOMAIN maze : \A d \in DOMAIN maze[c] : maze[c][d] = 1

\* C14: in TSP_1 and TSP_3, the route of the maze that expand_route builds from
\* the route tsp returned is a walk of the maze whose weights sum to the length
\* tsp returned; when every edge weighs 1 it has that length plus one cells.
C14_ExpandedLength ==
    (prog # "tsp_1_bis" /\ pc = "er_done") =>
        /\ IsWalk(maze_route)
        /\ MazeLength(maze_route) = best_length
        /\ UnitWeights => Len(maze_route) = best_length + 1

\* C14: a route through two pieces of cheese was expanded into a walk of four
\* cells or more, over some edge heavier than 1
C14_Reached ==
    /\ prog = "TSP_3" /\ pc = "er_done" /\ Len(cheese) = 2
    /\ Len(maze_route) >= 4 /\ best_length >= Len(maze_route)
    /\ MazeLength(maze_route) = best_length

(***************************************************************************)
(* graph_to_metagraph run twice.                                           *)
(***************************************************************************)
\* the second run of graph_to_metagraph is over, and is about to return
SecondRunOver ==
    /\ pc = "gm_loop" /\ gm_i = Len(locations_of_interest)
    /\ Len(oracle_log) = 2 * Len(locations_of_interest)

NotBelowBest == Geq(Top.current_length, Top.current_best_length)

\* the route of the caller of the call on top of the stack is not shorter
\* than the best length the caller holds
CallerNotBelowBest ==
    /\ Len(stack) >= 2
    /\ Geq(stack[Len(stack) - 1].current_length, stack[Len(stack) - 1].current_best_length)

BothReturned == Len(results) = 2 /\ results[2].returned # <<>>

\* C17: on the same complete graph and source, the tsp of TSP_3 and the tsp of
\* TSP_1 return the same best length.
C17_SameLength ==
    BothReturned =>
        /\ results[1].prog # results[2].prog
        /\ results[1].complete_graph = results[2].complete_graph
        /\ results[1].source = results[2].source
        /\ results[1].returned[2] = results[2].returned[2]

\* C17: on a complete graph of MaxNodes vertices the two programs have
\* returned different routes of the same length
C17_Reached ==
    /\ BothReturned /\ NbVertices(complete_graph) = MaxNodes
    /\ results[1].returned[1] # results[2].returned[1]
    /\ results[1].returned[2] = results[2].returned[2]
    /\ results[1].returned[2] > 0

(***************************************************************************)
(* The incumbent in the course of one call of tsp.                         *)
(***************************************************************************)
\* a call of _tsp is entered, in its loop, or returning
InSearch == pc \in {"tsp_enter", "tsp_loop", "tsp_return"}

\* the best length at this point of the search: the one the memory holds in
\* tsp_1_bis, the one the running call holds or returns in TSP_1 and TSP_3
Incumbent ==
    IF prog = "tsp_1_bis" THEN memory.best_length
    ELSE IF pc = "tsp_return" THEN ret[2]
    ELSE Top.current_best_length

\* the initial best length: float("inf"), or 10e9 in tsp_1_bis
InitialLength == IF prog = "tsp_1_bis" THEN TenE9 ELSE Inf

\* C18: the search of a call of tsp starts from the initial best length, no
\* step of it takes the best length to a greater one, and tsp returns the
\* best length the search ends with.
C18_NeverLonger ==
    [][/\ (pc = "tsp" /\ pc' = "tsp_enter") => Incumbent' = InitialLength
       /\ (InSearch /\ pc' \in {"tsp_enter", "tsp_loop", "tsp_return"}) =>
              Geq(Incumbent, Incumbent')
       /\ (InSearch /\ pc' = "tsp_done") => best_length' = Incumbent]_vars

\* C18: a complete route has taken the place of a longer one
C18_Reached ==
    /\ prog = "TSP_1" /\ pc = "tsp_return" /\ stack # <<>>
    /\ Len(Top.current_visited_vertices) = NbVertices(complete_graph)
    /\ Top.current_best_length # Inf
    /\ ret[2] < Top.current_best_length

(***************************************************************************)
(* Complete routes of equal length.                                        *)
(***************************************************************************)
\* the successors of a vertex in the order the search tries them
SearchOrder(vertex) ==
    IF prog = "TSP_3" THEN sorted_neighbors[vertex]
    ELSE get_neighbors(vertex, complete_graph)

RECURSIVE RoutesInOrder(_, _)
\* the complete routes that begin with route, in the order an exhaustive
\* search reaches them, from the k-th successor of its last vertex on
RoutesInOrder(route, k) ==
    LET order == SearchOrder(route[Len(route)])
    IN  IF Len(route) = NbVertices(complete_graph) THEN <<route>>
        ELSE IF k > Len(order) THEN <<>>
        ELSE (IF In(order[k], route) THEN <<>>
              ELSE RoutesInOrder(Append(route, order[k]), 1))
             \o RoutesInOrder(route, k + 1)

\* the first of them that no other is shorter than
FirstShortest ==
    LET all == RoutesInOrder(<<source>>, 1)
        shortest(k) == \A j \in 1..Len(all) :
                           RouteLength(complete_graph, all[k]) <=
                               RouteLength(complete_graph, all[j])
    IN  all[CHOOSE k \in 1..Len(all) :
                shortest(k) /\ \A j \in 1..(k - 1) : ~shortest(j)]

\* the call on top of the stack is on a complete route
OnCompleteRoute ==
    /\ stack # <<>>
    /\ Len(Top.current_visited_vertices) = NbVertices(complete_graph)

\* C19: in TSP_1 and TSP_3, a call of _tsp on a complete route returns that
\* route when it is strictly shorter than the best length it was given, and
\* otherwise, also when the lengths are equal, the best route and length it was
\* given; so tsp returns, of the shortest routes, the first in its search order.
C19_FirstShortestKept ==
    prog # "tsp_1_bis" =>
        /\ (pc = "tsp_return" /\ OnCompleteRoute) =>
              ret = IF Geq(Top.current_length, Top.current_best_length)
                    THEN <<Top.current_best_route, Top.current_best_length>>
                    ELSE <<Top.current_route, Top.current_length>>
        /\ pc = "tsp_done" => best_route = FirstShortest

\* C19: TSP_3 has returned, of two routes of the same length, the one through
\* the nearer successor first, which is not the one of lower index
C19_Reached ==
    /\ prog = "TSP_3" /\ pc = "tsp_done" /\ NbVertices(complete_graph) = 3
    /\ \A r \in RoutesFrom(complete_graph, source) :
           RouteLength(complete_graph, r) = best_length
    /\ best_length > 0
    /\ best_route = FirstShortest
    /\ best_route[2] > best_route[3]
    /\ complete_graph[source][best_route[2]] < complete_graph[source][best_route[3]]

(***************************************************************************)
(* tsp on a complete graph of one vertex.                                  *)
(***************************************************************************)
\* C20: on a complete graph of a single vertex, the first call of _tsp of
\* TSP_1 and TSP_3 never reaches its loop and makes no call, and tsp returns
\* the route [source] with length 0.
C20_SingleVertex ==
    (prog # "tsp_1_bis" /\ NbVertices(complete_graph) = 1) =>
        /\ Len(stack) <= 1
        /\ pc # "tsp_loop"
        /\ pc = "tsp_return" => ret = <<<<source>>, 0>>
        /\ pc = "tsp_done" => (best_route = <<source>> /\ best_length = 0)

\* C20: the tsp of TSP_3 has returned on a complete graph of a single vertex
C20_Reached ==
    /\ prog = "TSP_3" /\ NbVertices(complete_graph) = 1 /\ pc = "tsp_done"
    /\ best_route = <<source>> /\ best_length = 0
    /\ Len(results) = 1 /\ results[1].returned = <<<<source>>, 0>>

(***************************************************************************)
(* The order in which TSP_3 tries the successors.                          *)
(***************************************************************************)
\* sorted_neighbors[vertex] holds every other vertex once, and no vertex before
\* one that is nearer to vertex
SortedByWeight(vertex) ==
    LET order == sorted_neighbors[vertex]
    IN  /\ Len(order) = NbVertices(complete_graph) - 1
        /\ {order[k] : k \in 1..Len(order)} = DOMAIN complete_graph \ {vertex}
        /\ \A a, b \in 1..Len(order) :
               a <= b => complete_graph[vertex][order[a]] <= complete_graph[vertex][order[b]]

\* C21: all through the search of TSP_3 the lists of sorted_neighbors are the
\* ones built before the first call of _tsp, each holding the other vertices by
\* non-decreasing weight; the loop of a call goes through the list of its
\* vertex from the first place on, one place at a time, passing a place only
\* when its vertex is visited or the call made for it has returned, and calls
\* _tsp for the vertex at its place when that vertex is not visited: so no
\* unvisited successor is tried before a nearer one.
C21_TriedInOrder ==
    [][(prog = "TSP_3" /\ InSearch) =>
          /\ pc' # "tsp_done" => sorted_neighbors' = sorted_neighbors
          /\ sorted_neighbors = results[Len(results)].sorted_neighbors
          /\ \A v \in DOMAIN complete_graph : SortedByWeight(v)
          /\ Len(stack') > Len(stack) =>
                LET order == sorted_neighbors[Top.current_vertex]
                    called == stack'[Len(stack')].current_vertex
                IN  /\ stack'[Len(stack')].i = 1
                    /\ called = order[Top.i]
                    /\ ~In(called, Top.current_visited_vertices)
                    /\ \A u \in DOMAIN complete_graph :
                           (~In(u, Top.current_visited_vertices)
                            /\ complete_graph[Top.current_vertex][u]
                                   < complete_graph[Top.current_vertex][called])
                               => \E j \in 1..(Top.i - 1) : order[j] = u
          /\ (Len(stack') = Len(stack) /\ stack' # stack) =>
                /\ stack'[Len(stack)].i = Top.i + 1
                /\ In(sorted_neighbors[Top.current_vertex][Top.i],
                      Top.current_visited_vertices)
          /\ (Len(stack') < Len(stack) /\ stack' # <<>>) =>
                /\ stack'[Len(stack')].i = stack[Len(stack')].i + 1
                /\ Top.current_vertex =
                       sorted_neighbors[stack[Len(stack')].current_vertex][stack[Len(stack')].i]]_vars

\* C21: TSP_3 calls _tsp for the second successor of the source, which is the
\* farther of the two and the one of lower index
C21_Reached ==
    /\ prog = "TSP_3" /\ pc = "tsp_enter" /\ Len(stack) = 2
    /\ NbVertices(complete_graph) = MaxNodes
    /\ stack[1].i = 2
    /\ Top.current_vertex = sorted_neighbors[source][2]
    /\ Top.current_vertex < sorted_neighbors[source][1]
    /\ complete_graph[source][Top.current_vertex]
           > complete_graph[source][sorted_neighbors[source][1]]

(***************************************************************************)
(* Termination of tsp and the depth of its recursion.                      *)
(***************************************************************************)
RECURSIVE Places(_)
\* the places of the loops of the nested calls from the d-th on, read as one
\* number: a digit per call, the outermost call first, in a base that no place
\* reaches
Places(d) ==
    LET n == NbVertices(complete_graph)
    IN  IF d > Len(stack) \/ d > n THEN 0
        ELSE stack[d].i * (n + 2) ^ (n - d) + Places(d + 1)

\* a number no smaller than that of the steps tsp has still to take
StepsLeft ==
    LET n == NbVertices(complete_graph)
        most == 3 * (n + 2) ^ (n + 1)
    IN  CASE pc = "tsp" -> most + 1
          [] pc = "tsp_enter" -> most - 3 * Places(1)
          [] pc = "tsp_loop" -> most - 3 * Places(1) - 1
          [] pc = "tsp_return" -> most - 3 * Places(1) - 2
          [] OTHER -> 0

\* C22: on every complete graph and every source among its vertices, the
\* calls of _tsp are never nested deeper than the graph has vertices, and tsp
\* returns in the end: as long as it has not returned it can take a step, and
\* every step it takes brings a natural number down.
C22_TerminatesWithinDepth ==
    [][/\ Len(stack) <= NbVertices(complete_graph)
       /\ Len(stack') <= NbVertices(complete_graph)
       /\ StepsLeft \in Nat /\ StepsLeft' \in Nat
       /\ StepsLeft' < StepsLeft
       /\ pc' # "tsp_done" => (ENABLED NextTsp)']_vars

\* C22: the calls of _tsp are nested as deep as the complete graph has vertices
C22_Reached ==
    /\ pc = "tsp_enter" /\ prog = "tsp_1_bis"
    /\ NbVertices(complete_graph) = MaxNodes
    /\ Len(stack) = MaxNodes

(***************************************************************************)
(* The state threaded through the calls of _tsp.                           *)
(***************************************************************************)
\* the arguments of the call of frame f: its vertex, its route, its length
VertexOf(f) == IF prog = "tsp_1_bis" THEN f.vertex ELSE f.current_vertex
RouteOf(f) == IF prog = "tsp_1_bis" THEN f.route ELSE f.current_route
LengthOf(f) == IF prog = "tsp_1_bis" THEN f.length ELSE f.current_length

\* no element comes twice in the list
NoDuplicate(list) == \A a, b \in 1..Len(list) : list[a] = list[b] => a = b

\* the arguments of the call of frame f agree with one another
Consistent(f) ==
    /\ RouteOf(f) # <<>>
    /\ RouteOf(f)[1] = source
    /\ RouteOf(f)[Len(RouteOf(f))] = VertexOf(f)
    /\ NoDuplicate(RouteOf(f))
    /\ {RouteOf(f)[k] : k \in 1..Len(RouteOf(f))}
           = {Visited(f)[k] : k \in 1..Len(Visited(f))}
    /\ Len(Visited(f)) = Len(RouteOf(f))
    /\ \A k \in 1..Len(RouteOf(f)) : RouteOf(f)[k] \in VertexSet(complete_graph)
    /\ LengthOf(f) = RouteLength(complete_graph, RouteOf(f))

\* C23: in every call of _tsp, the running one and those it is nested in, the
\* route begins at the source, ends at the vertex of the call, holds no vertex
\* twice and exactly the vertices held as visited, and the length is the sum of
\* the weights between the consecutive vertices of the route.
C23_ThreadedStateConsistent ==
    \A d \in 1..Len(stack) : Consistent(stack[d])

\* C23: a call of _tsp nested MaxNodes deep was given a route over two
\* edges of different weights, neither of them 0
C23_Reached ==
    /\ pc = "tsp_enter" /\ Len(stack) = MaxNodes /\ MaxNodes >= 3
    /\ LET r == RouteOf(Top)
       IN  /\ Weight(complete_graph, r[1], r[2]) > 0
           /\ Weight(complete_graph, r[2], r[3]) > Weight(complete_graph, r[1], r[2])
           /\ LengthOf(Top) = RouteLength(complete_graph, r)
           /\ r[1] = source /\ source # 0

(***************************************************************************)
(* What the incumbent can be.                                              *)
(***************************************************************************)
\* the route held while none has been found: None, or [] in tsp_1_bis
InitialRoute == IF prog = "tsp_1_bis" THEN <<>> ELSE NoRoute

\* the pair is the initial one, or a route through all the vertices from the
\* source with the sum of its weights
InitialOrComplete(route, length) ==
    \/ route = InitialRoute /\ length = InitialLength
    \/ /\ IsPermutation(complete_graph, route)
       /\ route[1] = source
       /\ length = RouteLength(complete_graph, route)

\* C24: all through a call of tsp, every best route and best length held, by
\* the memory of tsp_1_bis, by any of the nested calls of TSP_1 and TSP_3, by
\* the value a call returns and by what tsp returns, is the initial pair or a
\* complete route from the source with the sum of its weights.
C24_IncumbentInitialOrComplete ==
    /\ (prog = "tsp_1_bis" /\ (InSearch \/ pc = "tsp_done")) =>
           InitialOrComplete(memory.best_route, memory.best_length)
    /\ prog # "tsp_1_bis" =>
           /\ \A d \in 1..Len(stack) :
                  InitialOrComplete(stack[d].current_best_route,
                                    stack[d].current_best_length)
           /\ pc = "tsp_return" => InitialOrComplete(ret[1], ret[2])
    /\ pc = "tsp_done" => InitialOrComplete(best_route, best_length)

\* C24: the search has gone back to a route of two vertices out of MaxNodes
\* while a complete route is held as the best
C24_Reached ==
    /\ prog = "TSP_1" /\ pc = "tsp_loop" /\ Len(stack) = 2
    /\ NbVertices(complete_graph) = MaxNodes /\ MaxNodes >= 3
    /\ Top.current_best_route # NoRoute
    /\ Len(Top.current_best_route) = MaxNodes
    /\ Top.current_best_length > 0

(***************************************************************************)
(* The length of the queue of actions.                                     *)
(***************************************************************************)
\* preprocessing has returned: turn is being called, or has raised
Playing == pc = "turn" \/ (pc = "error" /\ error = "IndexError")

\* C25: in TSP_1 and TSP_3, the queue that preprocessing stores holds one
\* action per pair of consecutive cells of the route of the maze, one fewer
\* than the route has cells; after k calls of turn it holds k fewer, so it is
\* empty after as many calls as it held actions and not before.
C25_QueueLength ==
    (prog # "tsp_1_bis" /\ Playing) =>
        /\ Len(stored_actions) = Len(maze_route) - 1
        /\ \A k \in 1..(Len(maze_route) - 1) :
               /\ Adjacent(maze_route[k], maze_route[k + 1], maze_width)
               /\ stored_actions[k] =
                      locations_to_action(maze_route[k], maze_route[k + 1], maze_width)
        /\ Len(actions_to_perform) = Len(maze_route) - 1 - turns
        /\ (actions_to_perform = <<>>) = (turns = Len(maze_route) - 1)

\* C25: the queue of TSP_3 held three actions or more, and is empty after as
\* many calls of turn
C25_Reached ==
    /\ prog = "TSP_3" /\ pc = "turn"
    /\ Len(maze_route) >= 4 /\ Len(stored_actions) = Len(maze_route) - 1
    /\ turns = Len(maze_route) - 1 /\ actions_to_perform = <<>>

(***************************************************************************)
(* template_2players: what turn returns.                                   *)
(***************************************************************************)
\* the cell that the action turn has just returned leads to
Target == Moved(player_location, action', maze_width)

\* C26: on a connected maze every call of turn of template_2players returns,
\* raising nothing, a move to a cell linked to the player's: an unvisited one
\* when there is one, and otherwise the cell the player came from, the last of
\* the trajectory as the call finds it; so too when the player is back on the
\* cell it started from with no unvisited neighbour left.
C26_TurnAlwaysMoves ==
    [][(pc = "turn_2players" /\ Connected(maze)) =>
          /\ pc' = "move" /\ error' = ""
          /\ Target \in DOMAIN maze[player_location]
          /\ IF unvisited_neighbors # {}
             THEN Target \in unvisited_neighbors
             ELSE trajectory # <<>> /\ Target = trajectory[Len(trajectory)]]_vars

\* C26, as far as the code goes: so it is as long as there is an unvisited
\* neighbour or the trajectory holds a cell; a call that finds neither, the
\* player back where it started or on a maze of one cell, raises an IndexError.
C26_RaisesBackAtStart ==
    [][(pc = "turn_2players" /\ Connected(maze)) =>
          IF unvisited_neighbors = {} /\ trajectory = <<>>
          THEN /\ pc' = "error" /\ error' = "IndexError"
               /\ action' = action /\ trajectory' = <<>>
          ELSE /\ pc' = "move" /\ error' = ""
               /\ Target \in DOMAIN maze[player_location]
               /\ IF unvisited_neighbors # {}
                  THEN Target \in unvisited_neighbors
                  ELSE Target = trajectory[Len(trajectory)]]_vars

====
